---- MODULE Spec2Model ----
(***************************************************************************)
(* Submission intake backend (src/main.py, src/schemas.py): the public     *)
(* submit and file routes, the admin login, and the token-protected admin  *)
(* routes over the three collections submission, submission_files and      *)
(* notifications.                                                          *)
(*                                                                         *)
(* Conventions.  A Python str that the code inspects character by          *)
(* character (lower(), endswith()) is a sequence of one-character strings. *)
(* None is the empty sequence <<>> and a present optional value v is <<v>>,*)
(* except for str values, where None is written NoneStr.  Time is counted  *)
(* in minutes since process start.  A well-formed ObjectId string is a     *)
(* natural number, a malformed one (bson raises InvalidId) is negative.    *)
(***************************************************************************)
EXTENDS Integers, Sequences, FiniteSets, TLC

VARIABLES
    now,               \* datetime.now(timezone.utc), in minutes
    oid,               \* last ObjectId the store handed out
    submission,        \* db['submission']: id -> document
    submission_files,  \* db['submission_files']: id -> document
    notifications,     \* db['notifications']: id -> document
    issued,            \* access tokens handed to clients by admin_login
    resp,              \* the last request with its response
    inflight           \* requests whose store calls are in progress

vars == <<now, oid, submission, submission_files, notifications, issued, resp, inflight>>

store == <<submission, submission_files, notifications>>

-----------------------------------------------------------------------------
(* Bounds of the model *)

MaxDocs == 3          \* ObjectIds the store hands out
MaxNotes == 2         \* notes appended to one submission
MaxNow == 120         \* clock of the store specification, minutes
MaxAuthNow == 780     \* clock of the token specification, minutes
MaxLogins == 1        \* tokens issued
MaxWorkers == 2       \* concurrent admin requests

-----------------------------------------------------------------------------
(* Configuration, src/main.py:17-27 *)

SECRET_KEY == "super-secret-key-change"
ACCESS_TOKEN_EXPIRE_MINUTES == 60 * 12
ADMIN_EMAIL == <<"A", "d", "@", "x">>
ADMIN_PASSWORD == "admin1234"

NoneStr == "None"

-----------------------------------------------------------------------------
(* str.lower() and str.endswith() *)

UpperChars == <<"A", "D", "F", "P", "X">>
LowerChars == <<"a", "d", "f", "p", "x">>

LowerChar(c) ==
    IF \E i \in 1..Len(UpperChars) : UpperChars[i] = c
    THEN LowerChars[CHOOSE i \in 1..Len(UpperChars) : UpperChars[i] = c]
    ELSE c

lower(s) == [i \in 1..Len(s) |-> LowerChar(s[i])]

endswith(s, suffix) ==
    /\ Len(s) >= Len(suffix)
    /\ SubSeq(s, Len(s) - Len(suffix) + 1, Len(s)) = suffix

-----------------------------------------------------------------------------
(* passlib: pwd_context.hash / pwd_context.verify *)

pwd_hash(password) == <<"pbkdf2_sha256", password>>

ADMIN_HASHED_PASSWORD == pwd_hash(ADMIN_PASSWORD)

verify_password(plain_password, hashed_password) ==
    pwd_hash(plain_password) = hashed_password

authenticate_admin(email, password) ==
    IF lower(email) = lower(ADMIN_EMAIL) /\ verify_password(password, ADMIN_HASHED_PASSWORD)
    THEN <<[email |-> ADMIN_EMAIL]>>
    ELSE <<>>

-----------------------------------------------------------------------------
(* python-jose: a token is its payload and the key that signed it *)

jwt_encode(payload, key) == [payload |-> payload, key |-> key]

\* Mutant: the expiry is not verified.
jwt_decode_no_exp(token, key, t) ==
    IF token.key # key THEN [ok |-> FALSE, payload |-> token.payload]
    ELSE [ok |-> TRUE, payload |-> token.payload]

\* jwt.decode: JWTError on a bad signature, ExpiredSignatureError (a
\* JWTError) when exp < now; otherwise the payload.
jwt_decode(token, key, t) ==
    IF token.key # key THEN [ok |-> FALSE, payload |-> token.payload]
    ELSE IF "exp" \in DOMAIN token.payload /\ token.payload.exp < t
         THEN [ok |-> FALSE, payload |-> token.payload]
         ELSE [ok |-> TRUE, payload |-> token.payload]

create_access_token(data, t) ==
    jwt_encode([k \in DOMAIN data \cup {"exp"} |->
                   IF k = "exp" THEN t + ACCESS_TOKEN_EXPIRE_MINUTES ELSE data[k]],
               SECRET_KEY)

Http(code, detail) == [code |-> code, detail |-> detail]

credentials_exception == Http(401, "Could not validate credentials")

\* Mutant: any subject signed with the server's key is let in.
get_current_admin_any_subject(auth, t) ==
    IF auth = <<>> THEN Http(401, "Not authenticated")
    ELSE LET d == jwt_decode(auth[1], SECRET_KEY, t) IN
         IF ~d.ok THEN credentials_exception
         ELSE IF "sub" \notin DOMAIN d.payload THEN credentials_exception
         ELSE Http(200, "OK")

\* Mutant: an expired token is told that it has expired.
get_current_admin_leaky(auth, t) ==
    IF auth = <<>> THEN Http(401, "Not authenticated")
    ELSE LET d == jwt_decode(auth[1], SECRET_KEY, t) IN
         IF ~d.ok
         THEN IF auth[1].key = SECRET_KEY THEN Http(401, "Signature has expired")
              ELSE credentials_exception
         ELSE IF "sub" \notin DOMAIN d.payload THEN credentials_exception
         ELSE IF lower(d.payload.sub) # lower(ADMIN_EMAIL) THEN credentials_exception
         ELSE Http(200, "OK")

\* The dependency of every admin route.  auth is <<>> when the request has
\* no bearer token (oauth2_scheme answers 401 itself), else <<token>>.
get_current_admin(auth, t) ==
    IF auth = <<>> THEN Http(401, "Not authenticated")
    ELSE LET d == jwt_decode(auth[1], SECRET_KEY, t) IN
         IF ~d.ok THEN credentials_exception
         ELSE IF "sub" \notin DOMAIN d.payload THEN credentials_exception
         ELSE IF lower(d.payload.sub) # lower(ADMIN_EMAIL) THEN credentials_exception
         ELSE Http(200, "OK")

-----------------------------------------------------------------------------
(* The document store: pymongo calls and database.create_document *)

\* bson.ObjectId(s) raises InvalidId unless s is a well-formed id.
ObjectId_valid(id) == id >= 0

\* insert_one under a fresh ObjectId; the id is oid + 1.
create_document(coll, o, data) ==
    [i \in DOMAIN coll \cup {o + 1} |-> IF i = o + 1 THEN data ELSE coll[i]]

find_one(coll, id) == IF id \in DOMAIN coll THEN <<coll[id]>> ELSE <<>>

\* Mutant: the update is an upsert.
update_one_set_upsert(coll, id, updates) ==
    IF id \notin DOMAIN coll
    THEN [i \in DOMAIN coll \cup {id} |-> IF i = id THEN updates ELSE coll[i]]
    ELSE [coll EXCEPT ![id] =
             [k \in DOMAIN coll[id] \cup DOMAIN updates |->
                 IF k \in DOMAIN updates THEN updates[k] ELSE coll[id][k]]]

\* update_one(filter, {"$set": updates}): no upsert, a missing id matches nothing.
update_one_set(coll, id, updates) ==
    IF id \notin DOMAIN coll THEN coll
    ELSE [coll EXCEPT ![id] =
             [k \in DOMAIN coll[id] \cup DOMAIN updates |->
                 IF k \in DOMAIN updates THEN updates[k] ELSE coll[id][k]]]

\* Mutant: the note is put first.
update_one_push_front(coll, id, value) ==
    IF id \notin DOMAIN coll THEN coll
    ELSE [coll EXCEPT ![id].notes = <<value>> \o @]

\* update_one(filter, {"$push": {"notes": value}})
update_one_push(coll, id, value) ==
    IF id \notin DOMAIN coll THEN coll
    ELSE [coll EXCEPT ![id].notes = Append(@, value)]

delete_one(coll, id) == [i \in DOMAIN coll \ {id} |-> coll[i]]

\* base64: the encoded text is 4 characters per 3 bytes and decodes to the bytes.
b64encode(content) == [b64len |-> 4 * ((content.len + 2) \div 3), of |-> content]
b64decode(text) == text.of

-----------------------------------------------------------------------------
(* src/schemas.py *)

Statuses == {"Pending", "In Review", "Approved", "Completed"}

\* EmailStr: one "@", a local part, and a domain with an inner dot.
EmailStr_valid(e) ==
    LET ats == {i \in 1..Len(e) : e[i] = "@"} IN
    /\ Cardinality(ats) = 1
    /\ LET at == CHOOSE i \in ats : TRUE IN
       /\ at > 1
       /\ \E j \in (at + 2)..(Len(e) - 1) : e[j] = "."

\* Submission(...): the model's defaults, or a ValidationError.
Submission_valid(form) == EmailStr_valid(form.email)

Submission(form, file_url, file_key, submitted_at) ==
    [name |-> form.name, email |-> form.email, novel_title |-> form.novel_title,
     synopsis |-> form.synopsis, message |-> form.message,
     file_url |-> file_url, file_key |-> file_key,
     status |-> "Pending", notes |-> <<>>, submitted_at |-> submitted_at]

\* Mutant: status is any str.
UpdateSubmission_any_status(payload) == TRUE

\* UpdateSubmission: status is None or one of the Literal's values.
UpdateSubmission_valid(payload) ==
    payload.status = NoneStr \/ payload.status \in Statuses

\* Python truthiness of an Optional[str]
truthy(s) == s # NoneStr /\ s # ""

-----------------------------------------------------------------------------
(* Requests and responses *)

Resp(op, auth, id, args, r, body) ==
    [op |-> op, auth |-> auth, id |-> id, args |-> args,
     code |-> r.code, detail |-> r.detail, body |-> body]

NoBody == <<>>
NoArgs == <<>>
InternalServerError == Http(500, "Internal Server Error")
NoResp == Resp("none", <<>>, 0, NoArgs, Http(0, ""), NoBody)

-----------------------------------------------------------------------------
(* POST /api/submit *)

dot_pdf == <<".", "p", "d", "f">>

\* The optional upload's checks, in the handler's order (main.py:131-136).
upload_error(file) ==
    IF file = <<>> THEN <<>>
    ELSE IF ~endswith(lower(file[1].filename), dot_pdf)
         THEN <<Http(400, "Only PDF uploads are allowed")>>
    ELSE IF file[1].content.len > 10 * 1024 * 1024
         THEN <<Http(400, "File too large (max 10MB in demo)")>>
    ELSE <<>>

stored_file(file) ==
    [filename |-> file[1].filename,
     content_b64 |-> b64encode(file[1].content),
     mime |-> IF file[1].content_type # NoneStr THEN file[1].content_type
              ELSE "application/pdf"]

notification(form, data, t) ==
    [type |-> "new_submission", to |-> "studio@arstudios.com",
     subject |-> <<"New Submission: ", form.novel_title>>,
     payload |-> data, created_at |-> t]

submit_project(form, file) ==
    LET err == upload_error(file)
        has_file == file # <<>>
        files1 == IF has_file THEN create_document(submission_files, oid, stored_file(file))
                  ELSE submission_files
        oid1 == IF has_file THEN oid + 1 ELSE oid
        file_key == IF has_file THEN <<oid + 1>> ELSE <<>>
        file_url == IF has_file THEN <<"/api/files/", oid + 1>> ELSE <<>>
        data == Submission(form, file_url, file_key, now)
    IN
    /\ oid + 3 <= MaxDocs
    /\ IF err # <<>>
       THEN /\ resp' = Resp("submit", <<>>, 0, [form |-> form, file |-> file], err[1], NoBody)
            /\ UNCHANGED <<oid, store>>
       ELSE IF ~Submission_valid(form)
       THEN \* pydantic's ValidationError at main.py:147, after the file was stored
            /\ submission_files' = files1
            /\ oid' = oid1
            /\ resp' = Resp("submit", <<>>, 0, [form |-> form, file |-> file],
                            InternalServerError, NoBody)
            /\ UNCHANGED <<submission, notifications>>
       ELSE /\ submission_files' = files1
            /\ submission' = create_document(submission, oid1, data)
            /\ notifications' = create_document(notifications, oid1 + 1,
                                                notification(form, data, now))
            /\ oid' = oid1 + 2
            /\ resp' = Resp("submit", <<>>, oid1 + 1, [form |-> form, file |-> file],
                            Http(200, "OK"), [success |-> TRUE, id |-> oid1 + 1])
    /\ UNCHANGED <<now, issued, inflight>>

-----------------------------------------------------------------------------
(* GET /api/files/{file_id} *)

\* The response of get_file; download_submission_pdf calls it too.
get_file_response(file_id) ==
    IF ~ObjectId_valid(file_id) THEN [r |-> InternalServerError, body |-> NoBody]
    ELSE LET doc == find_one(submission_files, file_id) IN
         IF doc = <<>> THEN [r |-> Http(404, "File not found"), body |-> NoBody]
         ELSE [r |-> Http(200, "OK"),
               body |-> [content |-> b64decode(doc[1].content_b64),
                         media_type |-> doc[1].mime]]

get_file(file_id) ==
    /\ resp' = LET g == get_file_response(file_id) IN
               Resp("get_file", <<>>, file_id, NoArgs, g.r, g.body)
    /\ UNCHANGED <<now, oid, store, issued, inflight>>

-----------------------------------------------------------------------------
(* POST /api/admin/login *)

admin_login(username, password) ==
    LET user == authenticate_admin(username, password)
        access_token == create_access_token([sub |-> user[1].email], now)
    IN
    /\ Cardinality(issued) < MaxLogins
    /\ IF user = <<>>
       THEN /\ resp' = Resp("login", <<>>, 0, [username |-> username, password |-> password],
                            Http(401, "Invalid credentials"), NoBody)
            /\ UNCHANGED issued
       ELSE /\ resp' = Resp("login", <<>>, 0, [username |-> username, password |-> password],
                            Http(200, "OK"),
                            [access_token |-> access_token, token_type |-> "bearer"])
            /\ issued' = issued \cup {access_token}
    /\ UNCHANGED <<now, oid, store, inflight>>

-----------------------------------------------------------------------------
(* GET /api/admin/submissions *)

\* it['id'] = str(it.pop('_id'))
with_id(doc, id) == [k \in DOMAIN doc \cup {"id"} |-> IF k = "id" THEN id ELSE doc[k]]

\* count_documents / find: equality on status, inclusive range on submitted_at.
\* (The regex filter q is not modelled.)
matches(doc, query) ==
    /\ truthy(query.status) => doc.status = query.status
    /\ query.start_date # <<>> => doc.submitted_at >= query.start_date[1]
    /\ query.end_date # <<>> => doc.submitted_at <= query.end_date[1]

RECURSIVE sort_newest_first(_)
sort_newest_first(ids) ==
    IF ids = {} THEN <<>>
    ELSE LET m == CHOOSE i \in ids : \A j \in ids :
                     \/ submission[i].submitted_at > submission[j].submitted_at
                     \/ submission[i].submitted_at = submission[j].submitted_at /\ i <= j
         IN <<m>> \o sort_newest_first(ids \ {m})

list_submissions(auth, query) ==
    LET a == get_current_admin(auth, now)
        found == {i \in DOMAIN submission : matches(submission[i], query)}
        sorted == sort_newest_first(found)
        skip == (query.page - 1) * query.page_size
        last == IF skip + query.page_size < Len(sorted) THEN skip + query.page_size
                ELSE Len(sorted)
        items == [k \in 1..(IF last > skip THEN last - skip ELSE 0) |->
                     with_id(submission[sorted[skip + k]], sorted[skip + k])]
    IN
    /\ resp' = IF a.code # 200 THEN Resp("list", auth, 0, query, a, NoBody)
               ELSE Resp("list", auth, 0, query, Http(200, "OK"),
                         [items |-> items, total |-> Cardinality(found),
                          page |-> query.page, page_size |-> query.page_size])
    /\ UNCHANGED <<now, oid, store, issued, inflight>>

-----------------------------------------------------------------------------
(* GET /api/admin/submissions/{submission_id} *)

get_submission(auth, submission_id) ==
    LET a == get_current_admin(auth, now)
        doc == find_one(submission, submission_id)
    IN
    /\ resp' = IF a.code # 200 THEN Resp("get", auth, submission_id, NoArgs, a, NoBody)
               ELSE IF ~ObjectId_valid(submission_id)
               THEN Resp("get", auth, submission_id, NoArgs, InternalServerError, NoBody)
               ELSE IF doc = <<>>
               THEN Resp("get", auth, submission_id, NoArgs, Http(404, "Not found"), NoBody)
               ELSE Resp("get", auth, submission_id, NoArgs, Http(200, "OK"),
                         with_id(doc[1], submission_id))
    /\ UNCHANGED <<now, oid, store, issued, inflight>>

-----------------------------------------------------------------------------
(* PATCH /api/admin/submissions/{submission_id} *)

\* Mutant: updated_at is touched only along with a status.
updates_of_only_with_status(payload, t) ==
    IF truthy(payload.status) THEN [updated_at |-> t, status |-> payload.status]
    ELSE <<>>

\* updates = {"updated_at": now}, plus the status when it is truthy
updates_of(payload, t) ==
    IF truthy(payload.status) THEN [updated_at |-> t, status |-> payload.status]
    ELSE [updated_at |-> t]

\* the $push of main.py:253, issued only for a truthy note
push_note(coll, submission_id, payload) ==
    IF truthy(payload.add_note) THEN update_one_push(coll, submission_id, payload.add_note)
    ELSE coll

\* the $set of main.py:254
set_updates(coll, submission_id, updates) == update_one_set(coll, submission_id, updates)

\* What the route answers before it touches the store: 401 from the
\* dependency, 422 from the body's validation, 500 from ObjectId().
admin_precheck(auth, submission_id, body_ok) ==
    LET a == get_current_admin(auth, now) IN
    IF a.code # 200 THEN a
    ELSE IF ~body_ok THEN Http(422, "Unprocessable Entity")
    ELSE IF ~ObjectId_valid(submission_id) THEN InternalServerError
    ELSE Http(200, "OK")

update_submission(auth, submission_id, payload) ==
    LET pre == admin_precheck(auth, submission_id, UpdateSubmission_valid(payload)) IN
    /\ (truthy(payload.add_note) /\ submission_id \in DOMAIN submission)
          => Len(submission[submission_id].notes) < MaxNotes
    /\ IF pre.code # 200
       THEN /\ resp' = Resp("update", auth, submission_id, payload, pre, NoBody)
            /\ UNCHANGED submission
       ELSE /\ submission' = set_updates(push_note(submission, submission_id, payload),
                                         submission_id, updates_of(payload, now))
            /\ resp' = Resp("update", auth, submission_id, payload, Http(200, "OK"),
                            [success |-> TRUE])
    /\ UNCHANGED <<now, oid, submission_files, notifications, issued, inflight>>

-----------------------------------------------------------------------------
(* DELETE /api/admin/submissions/{submission_id} *)

delete_submission(auth, submission_id) ==
    LET pre == admin_precheck(auth, submission_id, TRUE) IN
    /\ IF pre.code # 200
       THEN /\ resp' = Resp("delete", auth, submission_id, NoArgs, pre, NoBody)
            /\ UNCHANGED submission
       ELSE /\ submission' = delete_one(submission, submission_id)
            /\ resp' = Resp("delete", auth, submission_id, NoArgs, Http(200, "OK"),
                            [success |-> TRUE])
    /\ UNCHANGED <<now, oid, submission_files, notifications, issued, inflight>>

-----------------------------------------------------------------------------
(* GET /api/admin/submissions/{submission_id}/download *)

download_submission_pdf(auth, submission_id) ==
    LET pre == admin_precheck(auth, submission_id, TRUE)
        doc == find_one(submission, submission_id)
    IN
    /\ resp' = IF pre.code # 200
               THEN Resp("download", auth, submission_id, NoArgs, pre, NoBody)
               ELSE IF doc = <<>> \/ doc[1].file_key = <<>>
               THEN Resp("download", auth, submission_id, NoArgs,
                         Http(404, "File not found"), NoBody)
               ELSE LET g == get_file_response(doc[1].file_key[1]) IN
                    Resp("download", auth, submission_id, NoArgs, g.r, g.body)
    /\ UNCHANGED <<now, oid, store, issued, inflight>>

-----------------------------------------------------------------------------
(* The admin update and delete routes, one store call per step.  Each      *)
(* worker serves one request; the store applies each call atomically.      *)

Workers == 1..MaxWorkers

Idle == [pc |-> "idle"]

Request(op, auth, submission_id, payload, updates, pc, code) ==
    [op |-> op, auth |-> auth, id |-> submission_id, payload |-> payload,
     updates |-> updates, pc |-> pc, code |-> code]

\* main.py:247-252: the dependency, the body's validation, ObjectId(), and
\* the updates dict with the handler's own reading of the clock
begin_update(w, auth, submission_id, payload) ==
    LET pre == admin_precheck(auth, submission_id, UpdateSubmission_valid(payload))
        updates == updates_of(payload, now)
    IN
    /\ inflight[w].pc = "idle"
    /\ inflight' = [inflight EXCEPT ![w] =
          IF pre.code # 200
          THEN Request("update", auth, submission_id, payload, updates, "done", pre.code)
          ELSE Request("update", auth, submission_id, payload, updates,
                       IF truthy(payload.add_note) THEN "push" ELSE "set", 0)]
    /\ UNCHANGED <<now, oid, store, issued, resp>>

\* main.py:253
update_push(w) ==
    /\ inflight[w].pc = "push"
    /\ submission' = push_note(submission, inflight[w].id, inflight[w].payload)
    /\ inflight' = [inflight EXCEPT ![w].pc = "set"]
    /\ UNCHANGED <<now, oid, submission_files, notifications, issued, resp>>

\* main.py:254-255
update_set(w) ==
    /\ inflight[w].pc = "set"
    /\ submission' = set_updates(submission, inflight[w].id, inflight[w].updates)
    /\ inflight' = [inflight EXCEPT ![w].pc = "done", ![w].code = 200]
    /\ UNCHANGED <<now, oid, submission_files, notifications, issued, resp>>

\* main.py:260-261
begin_delete(w, auth, submission_id) ==
    LET pre == admin_precheck(auth, submission_id, TRUE) IN
    /\ inflight[w].pc = "idle"
    /\ inflight' = [inflight EXCEPT ![w] =
          IF pre.code # 200
          THEN Request("delete", auth, submission_id, NoArgs, NoArgs, "done", pre.code)
          ELSE Request("delete", auth, submission_id, NoArgs, NoArgs, "delete", 0)]
    /\ UNCHANGED <<now, oid, store, issued, resp>>

\* main.py:262-263
delete_step(w) ==
    /\ inflight[w].pc = "delete"
    /\ submission' = delete_one(submission, inflight[w].id)
    /\ inflight' = [inflight EXCEPT ![w].pc = "done", ![w].code = 200]
    /\ UNCHANGED <<now, oid, submission_files, notifications, issued, resp>>

-----------------------------------------------------------------------------
(* The clock *)

\* resp is the answer to a request made at the present time: it is forgotten
\* when time passes.
Tick(minutes, limit) ==
    /\ now + minutes <= limit
    /\ now' = now + minutes
    /\ resp' = NoResp
    /\ UNCHANGED <<oid, store, issued, inflight>>

-----------------------------------------------------------------------------
(* Inputs *)

Form(email) ==
    [name |-> "Ann", email |-> email, novel_title |-> "Dune", synopsis |-> "A desert.",
     message |-> NoneStr]

GoodEmail == <<"u", "@", "m", ".", "c">>
AuthorEmails == {GoodEmail, <<"u", "m", ".", "c">>}

Upload(filename, len) ==
    <<[filename |-> filename, content |-> [len |-> len, data |-> "%PDF"],
       content_type |-> NoneStr]>>

a_pdf == <<"a", ".", "p", "d", "f">>
a_txt == <<"a", ".", "t", "x", "t">>
Filenames == {a_pdf, <<"a", ".", "P", "d", "F">>, a_txt, <<"p", "d", "f">>}

FileLengths == {10 * 1024 * 1024, 10 * 1024 * 1024 + 1}

Uploads == {<<>>} \cup {Upload(f, n) : f \in Filenames, n \in FileLengths}
FewUploads == {<<>>, Upload(a_pdf, 10 * 1024 * 1024), Upload(a_txt, 1)}

\* ids a client can name: malformed, well-formed but never handed out, and
\* every id the store has handed out (of any collection, deleted or not)
Ids == {-1, 0} \cup 1..oid
\* the same, with only the ids handed out to submissions (each is followed
\* by its notification's id) or to stored files
SubmissionIds == {-1, 0} \cup {k - 1 : k \in DOMAIN notifications}
FileIds == {-1, 0} \cup DOMAIN submission_files
Admin == {<<t>> : t \in issued}

Payload(status, add_note) == [status |-> status, add_note |-> add_note]
Payloads == {Payload(NoneStr, NoneStr), Payload("Approved", NoneStr),
             Payload("Bogus", "n1"), Payload(NoneStr, ""), Payload(NoneStr, "n1"),
             Payload(NoneStr, "n2"), Payload("Approved", "n1")}
ConcPayloads == {[status |-> "Approved", add_note |-> "n1"],
                 [status |-> "Completed", add_note |-> "n2"],
                 [status |-> NoneStr, add_note |-> "n1"],
                 [status |-> "Approved", add_note |-> ""]}
FewPayloads == {[status |-> "Approved", add_note |-> "n1"]}

Query(status, page) ==
    [status |-> status, start_date |-> <<>>, end_date |-> <<60>>,
     page |-> page, page_size |-> 1]
Queries == {Query(NoneStr, 1), Query("Approved", 1), Query(NoneStr, 2)}
FewQueries == {Query(NoneStr, 1)}

Usernames == {ADMIN_EMAIL, <<"a", "D", "@", "X">>, <<"b", "@", "x">>}
Passwords == {ADMIN_PASSWORD, "guess"}

\* Tokens nobody was issued: signed with another key, or signed with the
\* server's key (a leaked or default secret, an earlier run of the process)
\* over other claims.
FarFuture == MaxAuthNow + ACCESS_TOKEN_EXPIRE_MINUTES
ForgedTokens ==
    {jwt_encode([sub |-> ADMIN_EMAIL, exp |-> FarFuture], "attacker-key"),
     jwt_encode([exp |-> FarFuture], SECRET_KEY),
     jwt_encode([sub |-> <<"b", "@", "x">>, exp |-> FarFuture], SECRET_KEY),
     jwt_encode([sub |-> <<"a", "D", "@", "X">>, exp |-> FarFuture], SECRET_KEY),
     jwt_encode([sub |-> ADMIN_EMAIL, exp |-> 30], SECRET_KEY)}

IssuedAuth == {<<>>} \cup {<<t>> : t \in issued}
AnyAuth == IssuedAuth \cup {<<t>> : t \in ForgedTokens}

-----------------------------------------------------------------------------
(* Specifications *)

Init ==
    /\ now = 0
    /\ oid = 0
    /\ submission = <<>>
    /\ submission_files = <<>>
    /\ notifications = <<>>
    /\ issued = {}
    /\ resp = NoResp
    /\ inflight = [w \in Workers |-> Idle]

\* The routes, each request handled to its end before the next.
Next ==
    \/ \E e \in AuthorEmails, f \in FewUploads : submit_project(Form(e), f)
    \/ \E i \in FileIds : get_file(i)
    \/ \E p \in Passwords : now = 0 /\ admin_login(ADMIN_EMAIL, p)
    \/ \E a \in Admin, q \in Queries : list_submissions(a, q)
    \/ \E a \in Admin, i \in DOMAIN submission : get_submission(a, i)
    \/ \E a \in Admin, i \in SubmissionIds, p \in Payloads : update_submission(a, i, p)
    \/ \E a \in Admin, i \in SubmissionIds : delete_submission(a, i)
    \/ \E a \in Admin, i \in DOMAIN submission : download_submission_pdf(a, i)
    \/ Tick(60, MaxNow)

Spec == Init /\ [][Next]_vars

\* The file routes over every kind of upload.
NextFiles ==
    \/ \E e \in AuthorEmails, f \in Uploads : submit_project(Form(e), f)
    \/ \E i \in Ids : get_file(i)
    \/ admin_login(ADMIN_EMAIL, ADMIN_PASSWORD)
    \/ \E a \in IssuedAuth, i \in Ids : delete_submission(a, i)
    \/ \E a \in IssuedAuth, i \in Ids : download_submission_pdf(a, i)

SpecFiles == Init /\ [][NextFiles]_vars

\* The admin routes under every kind of token.
NextAuth ==
    \/ submit_project(Form(GoodEmail), <<>>)
    \/ \E u \in Usernames, p \in Passwords : admin_login(u, p)
    \/ \E a \in AnyAuth, q \in FewQueries : list_submissions(a, q)
    \/ \E a \in AnyAuth, i \in Ids : get_submission(a, i)
    \/ \E a \in AnyAuth, i \in Ids, p \in FewPayloads : update_submission(a, i, p)
    \/ \E a \in AnyAuth, i \in Ids : delete_submission(a, i)
    \/ \E a \in AnyAuth, i \in Ids : download_submission_pdf(a, i)
    \/ Tick(60, MaxNow)

SpecAuth == Init /\ [][NextAuth]_vars

\* Issued tokens over their whole lifetime.
NextExpiry ==
    \/ now = 0 /\ submit_project(Form(GoodEmail), <<>>)
    \/ \E p \in Passwords : admin_login(ADMIN_EMAIL, p)
    \/ \E a \in IssuedAuth, q \in FewQueries : list_submissions(a, q)
    \/ \E a \in IssuedAuth, i \in Ids : get_submission(a, i)
    \/ \E a \in IssuedAuth, i \in Ids : delete_submission(a, i)
    \/ \E a \in IssuedAuth, i \in Ids : download_submission_pdf(a, i)
    \/ Tick(60, MaxAuthNow)
    \/ Tick(ACCESS_TOKEN_EXPIRE_MINUTES, MaxAuthNow)

SpecExpiry == Init /\ [][NextExpiry]_vars

\* Admin updates and deletes interleaved at their store calls.
NextConc ==
    \/ submit_project(Form(GoodEmail), <<>>)
    \/ admin_login(ADMIN_EMAIL, ADMIN_PASSWORD)
    \/ \E w \in Workers, t \in issued, i \in 1..oid, p \in ConcPayloads :
          begin_update(w, <<t>>, i, p)
    \/ \E w \in Workers : update_push(w)
    \/ \E w \in Workers : update_set(w)
    \/ \E w \in Workers, t \in issued, i \in 1..oid : begin_delete(w, <<t>>, i)
    \/ \E w \in Workers : delete_step(w)

SpecConc == Init /\ [][NextConc]_vars

-----------------------------------------------------------------------------
(* Vocabulary of the properties *)

AdminOps == {"list", "get", "update", "delete", "download"}

\* The causes of rejection the interface names, stated on the token itself.
NoToken(auth) == auth = <<>>
BadSignature(auth) == auth # <<>> /\ auth[1].key # SECRET_KEY
Expired(auth, t) == auth # <<>> /\ auth[1].payload.exp < t
NoSubject(auth) == auth # <<>> /\ "sub" \notin DOMAIN auth[1].payload
WrongSubject(auth) ==
    /\ auth # <<>>
    /\ "sub" \in DOMAIN auth[1].payload
    /\ lower(auth[1].payload.sub) # lower(ADMIN_EMAIL)
RejectedToken(auth, t) ==
    BadSignature(auth) \/ Expired(auth, t) \/ NoSubject(auth) \/ WrongSubject(auth)

IsPrefix(s, t) == Len(s) <= Len(t) /\ SubSeq(t, 1, Len(s)) = s

Count(n, seq) == Cardinality({k \in 1..Len(seq) : seq[k] = n})

-----------------------------------------------------------------------------
(* C1: an admin route called with no token or with a rejected token answers  *)
(* 401 and changes no collection; a submission's status, notes and existence *)
(* change only by an update or delete of that submission whose token         *)
(* validates.                                                                *)

C1_Step ==
    /\ (resp'.op \in AdminOps /\ (NoToken(resp'.auth) \/ RejectedToken(resp'.auth, now')))
          => (resp'.code = 401 /\ UNCHANGED store)
    /\ \A i \in DOMAIN submission :
          (\/ i \notin DOMAIN submission'
           \/ submission'[i].status # submission[i].status
           \/ submission'[i].notes # submission[i].notes)
          => /\ resp'.op \in {"update", "delete"}
             /\ resp'.id = i
             /\ ~NoToken(resp'.auth)
             /\ ~RejectedToken(resp'.auth, now')

\* C1: every step keeps C1_Step: a rejected or missing token gets 401 and changes
\* nothing, and a submission changes only by a request whose token validates.
C1_Unauthorized == [][C1_Step]_vars

C1_Witness ==
    /\ resp.op = "delete"
    /\ resp.code = 401
    /\ Expired(resp.auth, now)
    /\ resp.id \in DOMAIN submission
    /\ submission[resp.id].status = "Approved"

-----------------------------------------------------------------------------
(* C2: a login at time T issues a token with expiry T + 12 hours; an admin   *)
(* route accepts an issued token at every time before its expiry and answers *)
(* 401 at every time after it; the decision reads the token and the clock    *)
(* only.                                                                     *)

\* C2: an issued token expires 12 hours after its login, is accepted before its
\* expiry and answered 401 after it, whatever the store holds.
C2_Expiry ==
    /\ (resp.op = "login" /\ resp.code = 200)
          => resp.body.access_token.payload.exp = now + 12 * 60
    /\ \A t \in issued :
          /\ t.payload.exp - 12 * 60 \in 0..now
          /\ now < t.payload.exp => get_current_admin(<<t>>, now).code = 200
          /\ now > t.payload.exp => get_current_admin(<<t>>, now).code = 401
    /\ (resp.op \in AdminOps /\ resp.auth # <<>> /\ resp.auth[1] \in issued)
          => /\ now < resp.auth[1].payload.exp => resp.code # 401
             /\ now > resp.auth[1].payload.exp => resp.code = 401

C2_Witness ==
    /\ resp.op = "get"
    /\ resp.auth # <<>>
    /\ resp.auth[1] \in issued
    /\ now = (resp.auth[1].payload.exp - 12 * 60) + 13 * 60
    /\ resp.code = 401
    /\ resp.id \in DOMAIN submission

-----------------------------------------------------------------------------
(* C3: every rejected token gets the same answer, 401 "Could not validate    *)
(* credentials", whatever the cause: the answer to the last admin request    *)
(* with a rejected token equals the answer any other rejected token gets.    *)

\* C3: every rejected token gets the one generic 401 answer.
C3_Generic ==
    (resp.op \in AdminOps /\ RejectedToken(resp.auth, now))
       => /\ resp.code = 401
          /\ resp.detail = "Could not validate credentials"
          /\ resp.body = NoBody
          /\ \A a \in AnyAuth :
                RejectedToken(a, now)
                   => get_current_admin(a, now) = Http(resp.code, resp.detail)

C3_Witness ==
    /\ resp.op = "update"
    /\ BadSignature(resp.auth)
    /\ resp.code = 401
    /\ \E a \in AnyAuth : Expired(a, now) /\ ~BadSignature(a)
    /\ \E a \in AnyAuth : WrongSubject(a) /\ ~Expired(a, now) /\ ~BadSignature(a)
    /\ \E a \in AnyAuth : NoSubject(a) /\ ~Expired(a, now) /\ ~BadSignature(a)

-----------------------------------------------------------------------------
(* C4: every stored submission has one of the four statuses, Pending right   *)
(* after its creation, and has file_url and file_key both present or both    *)
(* absent, both absent when it was created without a file.                   *)

\* C4: statuses stay within the four values and file_url, file_key go together.
C4_Invariant ==
    /\ \A i \in DOMAIN submission :
          /\ submission[i].status \in {"Pending", "In Review", "Approved", "Completed"}
          /\ (submission[i].file_url = <<>>) <=> (submission[i].file_key = <<>>)
    /\ (resp.op = "submit" /\ resp.code = 200)
          => /\ resp.id \in DOMAIN submission
             /\ submission[resp.id].status = "Pending"
             /\ (resp.args.file = <<>>)
                   => (submission[resp.id].file_url = <<>> /\ submission[resp.id].file_key = <<>>)
             /\ (resp.args.file # <<>>)
                   => (submission[resp.id].file_url # <<>> /\ submission[resp.id].file_key # <<>>)

C4_Witness ==
    /\ resp.op = "update"
    /\ resp.args.status = "Bogus"
    /\ resp.id \in DOMAIN submission
    /\ submission[resp.id].file_key # <<>>
    /\ \E i \in DOMAIN submission : submission[i].status = "Approved"

-----------------------------------------------------------------------------
(* C5: a submit request that carries a file is accepted exactly when the     *)
(* filename ends in .pdf, case-insensitively, and the file has at most       *)
(* 10 MiB; a rejected one answers 400 and creates no Submission, StoredFile  *)
(* or NotificationLog record.                                                *)

AcceptableUpload(file) ==
    /\ endswith(lower(file[1].filename), <<".", "p", "d", "f">>)
    /\ file[1].content.len <= 10485760

C5_Step ==
    (resp'.op = "submit" /\ resp'.args.file # <<>>)
       => /\ (resp'.code = 200) <=> AcceptableUpload(resp'.args.file)
          /\ (resp'.code # 200) => (resp'.code = 400 /\ UNCHANGED store)

\* C5: every submit with a file is accepted iff the file is a .pdf of at most
\* 10 MiB, and a rejected one answers 400 and creates no record.
C5_UploadValidation == [][C5_Step]_vars

-----------------------------------------------------------------------------
(* C6: notes are append-only and in arrival order: an update call with a     *)
(* note puts exactly that note at the end, and no operation removes, edits   *)
(* or reorders a note of a stored submission.                                *)

NotesOnlyGrow ==
    \A i \in DOMAIN submission \cap DOMAIN submission' :
       IsPrefix(submission[i].notes, submission'[i].notes)

UpdateServed ==
    /\ resp'.op = "update"
    /\ resp'.code = 200
    /\ resp'.id \in DOMAIN submission

C6_AsClaimed_Step ==
    /\ NotesOnlyGrow
    /\ (UpdateServed /\ resp'.args.add_note # NoneStr)
          => submission'[resp'.id].notes =
                Append(submission[resp'.id].notes, resp'.args.add_note)

\* C6, as claimed: every step appends the note the update call carries.
C6_AsClaimed == [][C6_AsClaimed_Step]_vars

C6_Step ==
    /\ NotesOnlyGrow
    /\ (UpdateServed /\ resp'.args.add_note \notin {NoneStr, ""})
          => submission'[resp'.id].notes =
                Append(submission[resp'.id].notes, resp'.args.add_note)
    /\ (UpdateServed /\ resp'.args.add_note \in {NoneStr, ""})
          => submission'[resp'.id].notes = submission[resp'.id].notes

\* C6, as amended: every step appends the non-empty note the update call carries,
\* ignores an empty one, and keeps the stored notes as a prefix.
C6_AppendOnly == [][C6_Step]_vars

C6_Witness ==
    /\ resp.op = "update"
    /\ resp.code = 200
    /\ resp.args.add_note = "n2"
    /\ resp.id \in DOMAIN submission
    /\ submission[resp.id].notes = <<"n1", "n2">>

-----------------------------------------------------------------------------
(* C7: fetching a file by an id that identifies no StoredFile answers 404,   *)
(* through the public route and through the admin download route; the        *)
(* download route also answers 404 when the submission does not exist or has *)
(* no file.                                                                  *)

\* C7: a file id, or a submission id, that leads to no StoredFile answers 404.
C7_NotFound ==
    /\ (resp.op = "get_file" /\ resp.id \notin DOMAIN submission_files)
          => resp.code = 404
    /\ (resp.op = "download" /\ resp.code # 401)
          => ((\/ resp.id \notin DOMAIN submission
               \/ submission[resp.id].file_key = <<>>
               \/ submission[resp.id].file_key[1] \notin DOMAIN submission_files)
              => resp.code = 404)

-----------------------------------------------------------------------------
(* C8: deleting an id that is no submission answers success and changes no   *)
(* collection, so a repeated delete answers and leaves the same as the       *)
(* first; a delete removes no StoredFile and no NotificationLog.             *)

C8_Step ==
    (resp'.op = "delete" /\ resp'.code # 401)
       => /\ UNCHANGED <<submission_files, notifications>>
          /\ resp'.id \notin DOMAIN submission'
          /\ (resp'.id \notin DOMAIN submission)
                => (resp'.code = 200 /\ resp'.body = [success |-> TRUE] /\ UNCHANGED store)

\* C8: every delete of an id that is no submission answers success and changes
\* nothing; no delete touches the stored files or the notifications.
C8_DeleteIdempotent == [][C8_Step]_vars

-----------------------------------------------------------------------------
(* C9: a submission has no updated_at from its creation until the first      *)
(* admin update of it; every served update sets updated_at to the current    *)
(* time, and one with neither status nor note changes no other field.        *)

C9_Step ==
    /\ \A i \in DOMAIN submission' \ DOMAIN submission :
          "updated_at" \notin DOMAIN submission'[i]
    /\ \A i \in DOMAIN submission \cap DOMAIN submission' :
          ("updated_at" \notin DOMAIN submission[i] /\ "updated_at" \in DOMAIN submission'[i])
             => (resp'.op = "update" /\ resp'.code = 200 /\ resp'.id = i)
    /\ UpdateServed
          => /\ "updated_at" \in DOMAIN submission'[resp'.id]
             /\ submission'[resp'.id].updated_at = now'
             /\ (resp'.args.status = NoneStr /\ resp'.args.add_note = NoneStr)
                   => /\ DOMAIN submission'[resp'.id]
                            = DOMAIN submission[resp'.id] \cup {"updated_at"}
                      /\ \A k \in DOMAIN submission[resp'.id] \ {"updated_at"} :
                            submission'[resp'.id][k] = submission[resp'.id][k]

\* C9: every step keeps C9_Step: updated_at appears only by a served update, which
\* sets it to the current time; an empty update changes nothing else.
C9_UpdatedAt == [][C9_Step]_vars

C9_Witness ==
    /\ resp.op = "update"
    /\ resp.code = 200
    /\ resp.args = [status |-> NoneStr, add_note |-> NoneStr]
    /\ resp.id \in DOMAIN submission
    /\ submission[resp.id].submitted_at = 0
    /\ submission[resp.id].updated_at = 60
    /\ submission[resp.id].notes = <<"n1">>

-----------------------------------------------------------------------------
(* C10: with admin updates of one submission interleaved at their store      *)
(* calls, once no request is in progress a stored submission holds every     *)
(* supplied note exactly once and the status of one of the requests (its     *)
(* first status if none supplied one), and no store call brings a deleted    *)
(* submission back.                                                          *)

Quiescent == \A w \in Workers : inflight[w].pc \in {"idle", "done"}

ServedUpdates(i) ==
    {w \in Workers : /\ inflight[w].pc = "done"
                     /\ inflight[w].op = "update"
                     /\ inflight[w].code = 200
                     /\ inflight[w].id = i}

SuppliedStatuses(i) ==
    {inflight[w].payload.status : w \in {v \in ServedUpdates(i) :
                                            inflight[v].payload.status # NoneStr}}

StatusOfOneRequest(i) ==
    IF SuppliedStatuses(i) = {} THEN submission[i].status = "Pending"
    ELSE submission[i].status \in SuppliedStatuses(i)

NotesOnce(i, texts) ==
    \A n \in texts :
       Count(n, submission[i].notes)
          = Cardinality({w \in ServedUpdates(i) : inflight[w].payload.add_note = n})

NoRecreate == \A i \in 1..oid : i \notin DOMAIN submission => i \notin DOMAIN submission'

\* C10, as claimed: at rest, every supplied note is stored exactly once.
C10_AsClaimed ==
    Quiescent => \A i \in DOMAIN submission :
                    NotesOnce(i, {"", "n1", "n2"}) /\ StatusOfOneRequest(i)

\* C10, as amended: at rest, every supplied non-empty note is stored exactly once
\* and nothing else is, in a complete record whose status is that of one request,
\* and no step brings a deleted submission back.
C10_NoLostUpdate ==
    /\ [](Quiescent => \A i \in DOMAIN submission :
                          /\ {"notes", "status"} \subseteq DOMAIN submission[i]
                          /\ NotesOnce(i, {"n1", "n2"})
                          /\ \A k \in 1..Len(submission[i].notes) :
                                submission[i].notes[k] \in {"n1", "n2"}
                          /\ StatusOfOneRequest(i))
    /\ [][NoRecreate]_vars

C10_Witness ==
    /\ Quiescent
    /\ \E i \in DOMAIN submission :
          /\ Cardinality(ServedUpdates(i)) = 2
          /\ submission[i].notes = <<"n2", "n1">>
          /\ submission[i].status = "Approved"
          /\ inflight[1].payload = [status |-> "Approved", add_note |-> "n1"]
          /\ inflight[2].payload = [status |-> "Completed", add_note |-> "n2"]

====
